---- MODULE Spec2Model ----
(***************************************************************************)
(* DatabaseExtractor: the introspection orchestrator (database.go), the    *)
(* include/exclude filter (main.go) and the file-tree export.              *)
(*                                                                         *)
(* Go strings that the code measures, lowers, rewrites or concatenates     *)
(* (Database, Schema, TableName, Definition, dependency fields) are        *)
(* sequences of one-character strings; Go strings that are only compared   *)
(* or stored (DBType, Type, Type_Name, error texts) are TLA+ strings.      *)
(***************************************************************************)
EXTENDS Integers, Sequences, FiniteSets, TLC

(***************************************************************************)
(* Bounds of the model.                                                    *)
(***************************************************************************)
\* longest list of target databases in the configuration
MaxDbs == 2
\* most objects one database holds
MaxObjs == 2
\* most receives the collector makes from channels that are already closed
MaxClosedRecv == 2
\* longest catalog given to filterData
MaxData == 2
\* longest include and exclude list
MaxFilterList == 2
\* longest catalog given to exportToFiles
MaxCatalog == 2

(***************************************************************************)
(* Data: TableInfo, Column, Dependency (database.go 13-41).                *)
(***************************************************************************)
EmptyStr == <<>>

\* a view definition of more than ten characters, "CREATE VIEW"
LongDef == <<"C","R","E","A","T","E"," ","V","I","E","W">>

Column(name, typeName, nullable) ==
    [Name |-> name, Type_Name |-> typeName, Max_Length |-> 0, Precision |-> 0,
     Scale |-> 0, Collation_Name |-> EmptyStr, Is_Nullable |-> nullable,
     Is_Identity |-> FALSE]

Dependency(db, schema, table) ==
    [ReferencedDB |-> db, ReferencedSchema |-> schema, ReferencedTable |-> table]

TableInfo(database, schema, tableName, definition, columns, dependencies, typen) ==
    [Database |-> database, Schema |-> schema, TableName |-> tableName,
     Definition |-> definition, Columns |-> columns,
     Dependencies |-> dependencies, Type |-> typen]

\* the zero value of TableInfo, which a receive from a closed channel yields
ZeroTableInfo == TableInfo(EmptyStr, EmptyStr, EmptyStr, EmptyStr, <<>>, <<>>, "")

\* the nil error
NilErr == "nil"

(***************************************************************************)
(* The configuration and the engines' contents.                            *)
(***************************************************************************)
DBTypes == {"sqlite", "mssql"}

DbNames == { <<"S","a">>, <<"H","r">> }

\* lists of at most n elements of S, without repetition
RECURSIVE DistinctSeqs(_, _)
DistinctSeqs(S, n) ==
    IF n = 0 THEN { <<>> }
    ELSE { <<>> } \cup
         UNION { { <<x>> \o s : s \in DistinctSeqs(S \ {x}, n - 1) } : x \in S }

\* lists of at most n elements of S
RECURSIVE SeqsUpTo(_, _)
SeqsUpTo(S, n) ==
    IF n = 0 THEN { <<>> }
    ELSE { <<>> } \cup
         UNION { { <<x>> \o s : s \in SeqsUpTo(S, n - 1) } : x \in S }

Configs == [DBType : DBTypes, Databases : SeqsUpTo(DbNames, MaxDbs)]

\* rows of sqlite_master (names are unique in one file), each with the rows
\* PRAGMA table_info gives for it: <<cid, name, type, notnull, dflt_value, pk>>
SqliteObjects ==
    { [name |-> <<"t">>, type |-> "table",
       sql |-> <<"C","R","E","A","T","E"," ","T","A","B","L","E">>,
       info |-> << <<0, <<"i","d">>, "int", 1, 0, 1>> >>],
      [name |-> <<"v">>, type |-> "view", sql |-> LongDef,
       info |-> << <<0, <<"i","d">>, "int", 0, 0, 0>> >>],
      [name |-> <<"w">>, type |-> "view", sql |-> LongDef, info |-> <<>>] }

\* rows of INFORMATION_SCHEMA.TABLES / ROUTINES of one database
MssqlObjects ==
    { [schema |-> <<"d","b","o">>, name |-> <<"t">>, type |-> "BASE TABLE"],
      [schema |-> <<"h","r">>, name |-> <<"t">>, type |-> "VIEW"] }

SqliteMasters == DistinctSeqs(SqliteObjects, MaxObjs)
MssqlCatalogs == DistinctSeqs(MssqlObjects, MaxObjs)

VARIABLES
    config,        \* Config: DBType and Databases
    sqliteMaster,  \* the sqlite file's sqlite_master (all tasks open config.Server)
    infoSchema,    \* mssql: database name -> its objects
    taskPc,        \* per task: "query", "sendErr", "sendRes", "exit", "done"
    tables,        \* per task: the goroutine's tables, what is left to send
    taskErr,       \* per task: the error queryTables returned
    introspected,  \* history: per task, the entries queryTables had assembled
    wg,            \* the WaitGroup counter
    resultsClosed,
    errorsClosed,
    closerPc,      \* "wait", "closeResults", "closeErrors", "sendDone", "exit"
    tableInfos,
    errs,
    origin,        \* history: the task each element of tableInfos came from, 0: none
    errOrigin,     \* history: the task each element of errs came from, 0: none
    returned,
    retTables,
    retErr

\* filterData (main.go)
VARIABLES
    fData,         \* data
    fInclude,      \* includeTables
    fExclude,      \* excludeTables
    fOut,          \* the slice filterData returned
    fDone

\* exportToFiles
VARIABLES
    j,             \* the catalog to export
    exportPc,      \* "getwd", "loop", "done"
    idx,           \* entries of j the loop has been through
    fsDirs,        \* directories that exist, each a list of path segments
    fsFiles,       \* files that exist: [path, kind, depRows]
    ops,           \* history: MkdirAll and WriteFile calls, by entry
    exportErr

\* the caller of queryDatabases
VARIABLES
    abandoned      \* history: the caller has given the call up

orchVars == <<config, sqliteMaster, infoSchema, taskPc, tables, taskErr,
          introspected, wg, resultsClosed, errorsClosed, closerPc, tableInfos,
          errs, origin, errOrigin, returned, retTables, retErr>>

filterVars == <<fData, fInclude, fExclude, fOut, fDone>>

exportVars == <<j, exportPc, idx, fsDirs, fsFiles, ops, exportErr>>

callerVars == <<abandoned>>

vars == <<orchVars, filterVars, exportVars, callerVars>>

\* the filter and the export before they are called
FilterIdle ==
    /\ fData = <<>> /\ fInclude = <<>> /\ fExclude = <<>>
    /\ fOut = <<>> /\ fDone = FALSE

ExportIdle ==
    /\ j = <<>> /\ exportPc = "getwd" /\ idx = 0
    /\ fsDirs = {} /\ fsFiles = {} /\ ops = {} /\ exportErr = "nil"

Tasks == 1..Len(config.Databases)

(***************************************************************************)
(* Sequence helpers.                                                       *)
(***************************************************************************)
Count(seq, e) == Cardinality({ i \in DOMAIN seq : seq[i] = e })

Range(seq) == { seq[i] : i \in DOMAIN seq }

\* the elements of seq at the places where marks holds t, in order
PickBy(seq, marks, t) ==
    LET at == SelectSeq([i \in 1..Len(marks) |-> i], LAMBDA i : marks[i] = t)
    IN  [k \in 1..Len(at) |-> seq[at[k]]]

(***************************************************************************)
(* database/sql as the code uses it.                                       *)
(***************************************************************************)
ErrNoRows == "sql: no rows in result set"
ErrScanArity == "sql: expected 4 destination arguments in Scan, not 2"
ErrDriver == "driver: bad connection"

\* Rows.Scan: the number of destinations must be the number of columns
ScanArityOk(row, ndest) == Len(row) = ndest

\* the result set of queryTables' query: sqliteQueries selects name, type;
\* sqlQueries selects TABLE_CATALOG, TABLE_SCHEMA, TABLE_NAME, TABLE_TYPE
QueryTablesRows(cfg, database) ==
    IF cfg.DBType = "sqlite"
    THEN [i \in 1..Len(sqliteMaster) |->
             <<sqliteMaster[i].name, sqliteMaster[i].type>>]
    ELSE LET objs == infoSchema[database]
         IN  [i \in 1..Len(objs) |->
                 <<database, objs[i].schema, objs[i].name, objs[i].type>>]

\* OBJECT_ID(N'[db].[schema].[name]') of the mssql engine: the objects of
\* that schema and name (none when the schema part is empty)
ObjectId(database, schema, name) ==
    SelectSeq(infoSchema[database],
              LAMBDA o : o.schema = schema /\ o.name = name)

\* the result set of queryViewDefinition's query: one column
ViewDefinitionRows(cfg, database, tableName) ==
    IF cfg.DBType = "sqlite"
    THEN LET hit == SelectSeq(sqliteMaster,
                       LAMBDA o : o.name = tableName /\ o.type = "view")
         IN  [i \in 1..Len(hit) |-> hit[i].sql]
    ELSE LET hit == ObjectId(database, EmptyStr, tableName)
         IN  << IF hit # <<>> /\ hit[1].type = "VIEW" THEN LongDef ELSE EmptyStr >>

\* queryViewDefinition: QueryRow, then Scan of the first row
queryViewDefinition(cfg, database, tableName, driverOk) ==
    LET rows == ViewDefinitionRows(cfg, database, tableName)
    IN  IF ~driverOk THEN [val |-> EmptyStr, err |-> ErrDriver]
        ELSE IF rows = <<>> THEN [val |-> EmptyStr, err |-> ErrNoRows]
        ELSE [val |-> rows[1], err |-> NilErr]

\* queryTableDefinition: PRAGMA table_info for sqlite (Is_Nullable from
\* notnull); sys.columns of OBJECT_ID('[db].[].[name]') for mssql
queryTableDefinition(cfg, database, tableName, driverOk) ==
    IF ~driverOk THEN [val |-> <<>>, err |-> ErrDriver]
    ELSE IF cfg.DBType = "sqlite"
    THEN LET hit == SelectSeq(sqliteMaster, LAMBDA o : o.name = tableName)
             info == IF hit = <<>> THEN <<>> ELSE hit[1].info
         IN  [val |-> [i \in 1..Len(info) |->
                          Column(info[i][2], info[i][3], info[i][4] = 0)],
              err |-> NilErr]
    ELSE [val |-> <<>>, err |-> NilErr]

\* queryTableDependencies: sqlite's query is SELECT '', '', '' (one row);
\* mssql's reads sql_expression_dependencies of OBJECT_ID('[db].[].[name]')
queryTableDependencies(cfg, database, tableName, driverOk) ==
    IF ~driverOk THEN [val |-> <<>>, err |-> ErrDriver]
    ELSE IF cfg.DBType = "sqlite"
    THEN [val |-> << Dependency(EmptyStr, EmptyStr, EmptyStr) >>, err |-> NilErr]
    ELSE [val |-> <<>>, err |-> NilErr]

\* one pass of queryTables' loop body over a row (lines 145-175): the entry,
\* or the first error
IntrospectRow(cfg, database, row, okDef, okCols, okDeps) ==
    IF ~ScanArityOk(row, 2) THEN [val |-> ZeroTableInfo, err |-> ErrScanArity]
    ELSE
    LET tableName == row[1]
        typen == row[2]
        definition == queryViewDefinition(cfg, database, tableName, okDef)
        tablestruct == queryTableDefinition(cfg, database, tableName, okCols)
        dependencies == queryTableDependencies(cfg, database, tableName, okDeps)
    IN  IF definition.err # NilErr THEN [val |-> ZeroTableInfo, err |-> definition.err]
        ELSE IF tablestruct.err # NilErr THEN [val |-> ZeroTableInfo, err |-> tablestruct.err]
        ELSE IF dependencies.err # NilErr THEN [val |-> ZeroTableInfo, err |-> dependencies.err]
        ELSE [val |-> TableInfo(database, EmptyStr, tableName, definition.val,
                                tablestruct.val, dependencies.val, typen),
              err |-> NilErr]

\* what queryTables returns when a step fails: return nil, err. assembled is
\* history: the entries it had appended to tables by then
QueryTablesFailure(tbls, err) ==
    [tables |-> <<>>, err |-> err, assembled |-> tbls]

\* The engine or the connection may fail any one query of a call: fault.at is
\* 0 for the object query, i for a query about the i-th object (fault.op says
\* which), and past the last object when none fails.
DriverFaults(n) ==
    { [at |-> 0, op |-> "query"], [at |-> n + 1, op |-> "none"] } \cup
    { [at |-> i, op |-> o] : i \in 1..n, o \in {"def", "cols", "deps"} }

\* queryTables' rows.Next() loop from the i-th row on (lines 144-178)
RECURSIVE QueryTablesLoop(_, _, _, _, _, _)
QueryTablesLoop(cfg, database, rows, i, tbls, fault) ==
    IF i > Len(rows) THEN [tables |-> tbls, err |-> NilErr, assembled |-> tbls]
    ELSE LET r == IntrospectRow(cfg, database, rows[i],
                                ~(fault.at = i /\ fault.op = "def"),
                                ~(fault.at = i /\ fault.op = "cols"),
                                ~(fault.at = i /\ fault.op = "deps"))
         IN  IF r.err # NilErr THEN QueryTablesFailure(tbls, r.err)
             ELSE QueryTablesLoop(cfg, database, rows, i + 1,
                                  Append(tbls, r.val), fault)

\* queryTables (lines 117-179)
queryTables(cfg, database, fault) ==
    IF fault.at = 0 THEN QueryTablesFailure(<<>>, ErrDriver)
    ELSE QueryTablesLoop(cfg, database, QueryTablesRows(cfg, database), 1,
                         <<>>, fault)

(***************************************************************************)
(* queryDatabases: the per-database goroutines (lines 78-88).              *)
(***************************************************************************)
\* tables, err := queryTables(...) and the test of err (lines 80-81)
CallQueryTables(t) ==
    /\ taskPc[t] = "query"
    /\ \E fault \in DriverFaults(Len(QueryTablesRows(config, config.Databases[t]))) :
          LET r == queryTables(config, config.Databases[t], fault)
          IN  /\ tables' = [tables EXCEPT ![t] = r.tables]
              /\ taskErr' = [taskErr EXCEPT ![t] = r.err]
              /\ introspected' = [introspected EXCEPT ![t] = r.assembled]
              /\ taskPc' = [taskPc EXCEPT ![t] =
                               IF r.err # NilErr THEN "sendErr" ELSE "sendRes"]
    /\ UNCHANGED <<config, sqliteMaster, infoSchema, wg, resultsClosed,
                   errorsClosed, closerPc, tableInfos, errs, origin, errOrigin,
                   returned, retTables, retErr>>
    /\ UNCHANGED <<filterVars, exportVars, callerVars>>

\* errors <- err (line 82): a rendezvous with the collector's errors case
SendError(t) ==
    /\ taskPc[t] = "sendErr"
    /\ ~returned
    /\ errs' = Append(errs, taskErr[t])
    /\ errOrigin' = Append(errOrigin, t)
    /\ taskPc' = [taskPc EXCEPT ![t] = "exit"]
    /\ UNCHANGED <<config, sqliteMaster, infoSchema, tables, taskErr,
                   introspected, wg, resultsClosed, errorsClosed, closerPc,
                   tableInfos, origin, returned, retTables, retErr>>
    /\ UNCHANGED <<filterVars, exportVars, callerVars>>

\* a range loop that takes its elements from the wrong end
NextToSendLast(tbls) == tbls[Len(tbls)]

\* the element the range loop of line 85 sends next, and what is left
NextToSend(tbls) == Head(tbls)
RestToSend(tbls) == Tail(tbls)

\* results <- table (line 86): a rendezvous with the collector's results case
SendResult(t) ==
    /\ taskPc[t] = "sendRes"
    /\ tables[t] # <<>>
    /\ ~returned
    /\ tableInfos' = Append(tableInfos, NextToSend(tables[t]))
    /\ origin' = Append(origin, t)
    /\ tables' = [tables EXCEPT ![t] = RestToSend(@)]
    /\ UNCHANGED <<config, sqliteMaster, infoSchema, taskPc, taskErr,
                   introspected, wg, resultsClosed, errorsClosed, closerPc,
                   errs, errOrigin, returned, retTables, retErr>>
    /\ UNCHANGED <<filterVars, exportVars, callerVars>>

\* a goroutine whose wg.Done() is its last statement instead of a deferred
\* call: the return after errors <- err leaves without it
TaskDoneNoDefer(t) ==
    /\ \/ taskPc[t] = "exit"
       \/ taskPc[t] = "sendRes" /\ tables[t] = <<>>
    /\ wg' = IF taskPc[t] = "exit" THEN wg ELSE wg - 1
    /\ taskPc' = [taskPc EXCEPT ![t] = "done"]
    /\ UNCHANGED <<config, sqliteMaster, infoSchema, tables, taskErr,
                   introspected, resultsClosed, errorsClosed, closerPc,
                   tableInfos, errs, origin, errOrigin, returned, retTables,
                   retErr>>
    /\ UNCHANGED <<filterVars, exportVars, callerVars>>

\* the goroutine returns, after errors <- err (line 83) or at the end of the
\* range loop (line 87), and the deferred wg.Done() runs (line 79)
TaskDone(t) ==
    /\ \/ taskPc[t] = "exit"
       \/ taskPc[t] = "sendRes" /\ tables[t] = <<>>
    /\ wg' = wg - 1
    /\ taskPc' = [taskPc EXCEPT ![t] = "done"]
    /\ UNCHANGED <<config, sqliteMaster, infoSchema, tables, taskErr,
                   introspected, resultsClosed, errorsClosed, closerPc,
                   tableInfos, errs, origin, errOrigin, returned, retTables,
                   retErr>>
    /\ UNCHANGED <<filterVars, exportVars, callerVars>>

(***************************************************************************)
(* queryDatabases: the closer goroutine (lines 91-96).                     *)
(***************************************************************************)
\* a wait that returns while one task is still running
WaitReturnsEarly(counter) == counter <= 1

\* wg.Wait() returns when the counter is zero
WaitReturns(counter) == counter = 0

CloserWait ==
    /\ closerPc = "wait"
    /\ WaitReturns(wg)
    /\ closerPc' = "closeResults"
    /\ UNCHANGED <<config, sqliteMaster, infoSchema, taskPc, tables,
                   taskErr, introspected, wg, resultsClosed, errorsClosed,
                   tableInfos, errs, origin, errOrigin, returned, retTables,
                   retErr>>
    /\ UNCHANGED <<filterVars, exportVars, callerVars>>

CloseResults ==
    /\ closerPc = "closeResults"
    /\ resultsClosed' = TRUE
    /\ closerPc' = "closeErrors"
    /\ UNCHANGED <<config, sqliteMaster, infoSchema, taskPc, tables,
                   taskErr, introspected, wg, errorsClosed, tableInfos, errs,
                   origin, errOrigin, returned, retTables, retErr>>
    /\ UNCHANGED <<filterVars, exportVars, callerVars>>

CloseErrors ==
    /\ closerPc = "closeErrors"
    /\ errorsClosed' = TRUE
    /\ closerPc' = "sendDone"
    /\ UNCHANGED <<config, sqliteMaster, infoSchema, taskPc, tables,
                   taskErr, introspected, wg, resultsClosed, tableInfos, errs,
                   origin, errOrigin, returned, retTables, retErr>>
    /\ UNCHANGED <<filterVars, exportVars, callerVars>>

(***************************************************************************)
(* queryDatabases: the collector loop (lines 98-113).                      *)
(***************************************************************************)
\* how many zero values the collector has taken from closed channels
ClosedRecvs == Count(origin, 0) + Count(errOrigin, 0)

\* case table := <-results, on the closed channel: the zero TableInfo
RecvClosedResults ==
    /\ resultsClosed
    /\ ~returned
    /\ ClosedRecvs < MaxClosedRecv
    /\ tableInfos' = Append(tableInfos, ZeroTableInfo)
    /\ origin' = Append(origin, 0)
    /\ UNCHANGED <<config, sqliteMaster, infoSchema, taskPc, tables,
                   taskErr, introspected, wg, resultsClosed, errorsClosed,
                   closerPc, errs, errOrigin, returned, retTables, retErr>>
    /\ UNCHANGED <<filterVars, exportVars, callerVars>>

\* case err := <-errors, on the closed channel: nil
RecvClosedErrors ==
    /\ errorsClosed
    /\ ~returned
    /\ ClosedRecvs < MaxClosedRecv
    /\ errs' = Append(errs, NilErr)
    /\ errOrigin' = Append(errOrigin, 0)
    /\ UNCHANGED <<config, sqliteMaster, infoSchema, taskPc, tables,
                   taskErr, introspected, wg, resultsClosed, errorsClosed,
                   closerPc, tableInfos, origin, returned, retTables, retErr>>
    /\ UNCHANGED <<filterVars, exportVars, callerVars>>

\* a done case that gives up the catalog when an error was collected
ReturnValueNoCatalogOnError(tis, es) ==
    [tables |-> IF Len(es) > 0 THEN <<>> ELSE tis,
     err |-> IF Len(es) > 0 THEN es[1] ELSE NilErr]

\* a done case whose test of len(errs) is off by one
ReturnValueOffByOne(tis, es) ==
    [tables |-> tis, err |-> IF Len(es) > 1 THEN es[1] ELSE NilErr]

\* what the done case returns (lines 108-111)
ReturnValue(tis, es) ==
    [tables |-> tis, err |-> IF Len(es) > 0 THEN es[1] ELSE NilErr]

\* case <-done: a rendezvous with the closer's done <- true
RecvDone ==
    /\ closerPc = "sendDone"
    /\ ~returned
    /\ returned' = TRUE
    /\ retTables' = ReturnValue(tableInfos, errs).tables
    /\ retErr' = ReturnValue(tableInfos, errs).err
    /\ closerPc' = "exit"
    /\ UNCHANGED <<config, sqliteMaster, infoSchema, taskPc, tables,
                   taskErr, introspected, wg, resultsClosed, errorsClosed,
                   tableInfos, errs, origin, errOrigin>>
    /\ UNCHANGED <<filterVars, exportVars, callerVars>>

(***************************************************************************)
(* The orchestrator's specification: queryDatabases from the point where   *)
(* its goroutines are started.                                             *)
(***************************************************************************)
Init ==
    /\ config \in Configs
    /\ \/ /\ config.DBType = "sqlite"
          /\ sqliteMaster \in SqliteMasters
          /\ infoSchema = [d \in DbNames |-> <<>>]
       \/ /\ config.DBType = "mssql"
          /\ sqliteMaster = <<>>
          /\ infoSchema \in [DbNames -> MssqlCatalogs]
    /\ taskPc = [t \in Tasks |-> "query"]
    /\ tables = [t \in Tasks |-> <<>>]
    /\ taskErr = [t \in Tasks |-> NilErr]
    /\ introspected = [t \in Tasks |-> <<>>]
    /\ wg = Len(config.Databases)
    /\ resultsClosed = FALSE
    /\ errorsClosed = FALSE
    /\ closerPc = "wait"
    /\ tableInfos = <<>>
    /\ errs = <<>>
    /\ origin = <<>>
    /\ errOrigin = <<>>
    /\ returned = FALSE
    /\ retTables = <<>>
    /\ retErr = NilErr
    /\ FilterIdle
    /\ ExportIdle
    /\ abandoned = FALSE

Next ==
    \/ \E t \in Tasks : CallQueryTables(t)
    \/ \E t \in Tasks : SendError(t)
    \/ \E t \in Tasks : SendResult(t)
    \/ \E t \in Tasks : TaskDone(t)
    \/ CloserWait
    \/ CloseResults
    \/ CloseErrors
    \/ RecvClosedResults
    \/ RecvClosedErrors
    \/ RecvDone

Spec == Init /\ [][Next]_vars

(***************************************************************************)
(* Scheduling.  Every goroutine that can take a step is scheduled in the   *)
(* end: a task past its queryTables call (a send is a step when the        *)
(* collector takes it, and the collector's loop is always at its select),  *)
(* the closer, and the select's done case, which competes with the         *)
(* receives from the closed channels.  A queryTables call is engine I/O:   *)
(* nothing makes it return.                                                *)
(***************************************************************************)
\* the step of task t's goroutine after queryTables has returned
TaskStep(t) ==
    /\ t \in Tasks
    /\ \/ SendError(t)
       \/ SendResult(t)
       \/ TaskDone(t)

Fairness ==
    /\ \A t \in 1..MaxDbs : WF_vars(TaskStep(t))
    /\ WF_vars(CloserWait)
    /\ WF_vars(CloseResults)
    /\ WF_vars(CloseErrors)
    /\ WF_vars(RecvDone)

\* Scheduling does not read the databases' names, so the runs checked for
\* termination take their target databases from the front of one list that
\* alternates the two names: every number of tasks from zero up, with two
\* tasks on different databases and a third on a database listed twice.
FairDatabases ==
    [i \in 1..MaxDbs |-> IF i % 2 = 1 THEN <<"S","a">> ELSE <<"H","r">>]

FairInit ==
    /\ Init
    /\ \E n \in 0..MaxDbs : config.Databases = SubSeq(FairDatabases, 1, n)

SpecFair == FairInit /\ [][Next]_vars /\ Fairness

(***************************************************************************)
(* The caller gives up a call of queryDatabases that is under way.         *)
(* queryDatabases takes a Config and nothing else (line 70): no context,   *)
(* channel or flag reaches its goroutines, and main installs no signal     *)
(* handler, so no step of the goroutines reads abandoned.                  *)
(***************************************************************************)
Abandon ==
    /\ ~returned
    /\ ~abandoned
    /\ abandoned' = TRUE
    /\ UNCHANGED <<orchVars, filterVars, exportVars>>

NextAbandon ==
    \/ Next
    \/ Abandon

SpecAbandon == Init /\ [][NextAbandon]_vars

(***************************************************************************)
(* filterData (main.go 73-95).                                             *)
(***************************************************************************)
FilterNames == { <<"t">>, <<"v">> }

\* catalogs with entries of the same name in different databases
FilterEntries ==
    { TableInfo(d, EmptyStr, n, EmptyStr, <<>>, <<>>, "view") :
        d \in DbNames, n \in FilterNames }

\* includes := make(map[string]bool) with true for every listed name; a
\* lookup of a name that is not a key gives false
MakeSet(names) == [keys |-> Range(names)]
Lookup(set, name) == name \in set.keys
MapLen(set) == Cardinality(set.keys)

\* a loop body that lets the include list win over the exclude list
FilterKeepsIncludeFirst(includes, excludes, table) ==
    IF MapLen(includes) > 0
    THEN Lookup(includes, table.TableName)
    ELSE ~Lookup(excludes, table.TableName)

\* the loop body's two tests (lines 86-91): TRUE when table is appended
FilterKeeps(includes, excludes, table) ==
    IF MapLen(includes) > 0 /\ ~Lookup(includes, table.TableName) THEN FALSE
    ELSE IF Lookup(excludes, table.TableName) THEN FALSE
    ELSE TRUE

\* the loop of lines 85-93 from the i-th entry on
RECURSIVE FilterLoop(_, _, _, _, _)
FilterLoop(data, i, includes, excludes, filteredData) ==
    IF i > Len(data) THEN filteredData
    ELSE FilterLoop(data, i + 1, includes, excludes,
                    IF FilterKeeps(includes, excludes, data[i])
                    THEN Append(filteredData, data[i])
                    ELSE filteredData)

filterData(data, includeTables, excludeTables) ==
    FilterLoop(data, 1, MakeSet(includeTables), MakeSet(excludeTables), <<>>)

FilterInit ==
    /\ fData \in SeqsUpTo(FilterEntries, MaxData)
    /\ fInclude \in SeqsUpTo(FilterNames, MaxFilterList)
    /\ fExclude \in SeqsUpTo(FilterNames, MaxFilterList)
    /\ fOut = <<>>
    /\ fDone = FALSE
    /\ config = [DBType |-> "sqlite", Databases |-> <<>>]
    /\ sqliteMaster = <<>>
    /\ infoSchema = [d \in DbNames |-> <<>>]
    /\ taskPc = <<>> /\ tables = <<>> /\ taskErr = <<>> /\ introspected = <<>>
    /\ wg = 0
    /\ resultsClosed = FALSE /\ errorsClosed = FALSE
    /\ closerPc = "wait"
    /\ tableInfos = <<>> /\ errs = <<>> /\ origin = <<>> /\ errOrigin = <<>>
    /\ returned = FALSE
    /\ retTables = <<>>
    /\ retErr = NilErr
    /\ ExportIdle
    /\ abandoned = FALSE

\* data = filterData(data, config.IncludeTables, config.ExcludeTables)
CallFilterData ==
    /\ ~fDone
    /\ fOut' = filterData(fData, fInclude, fExclude)
    /\ fDone' = TRUE
    /\ UNCHANGED <<fData, fInclude, fExclude>>
    /\ UNCHANGED <<orchVars, exportVars, callerVars>>

FilterNext == CallFilterData

SpecFilter == FilterInit /\ [][FilterNext]_vars

\* C6: filterData returns exactly the entries of its input, in the input's
\* order, whose TableName is in the include list (any name when that list is
\* empty) and not in the exclude list; the exclude list wins
C6_FilterIsOrderedSelection ==
    fDone =>
        fOut = SelectSeq(fData,
                   LAMBDA e : /\ (Len(fInclude) = 0 \/
                                  \E i \in DOMAIN fInclude : fInclude[i] = e.TableName)
                              /\ \A i \in DOMAIN fExclude : fExclude[i] # e.TableName)

\* C6's case: a name is on both lists, an entry of that name was dropped and
\* another entry was kept
C6_Witness ==
    /\ fDone
    /\ \E e \in Range(fData) :
          /\ e.TableName \in Range(fInclude) \cap Range(fExclude)
          /\ e \notin Range(fOut)
    /\ fOut # <<>>

(***************************************************************************)
(* The file-tree export: exportToFiles, writeSQLFile and the generators.   *)
(***************************************************************************)
\* the least length at which an artifact is written: the tests > 10
MinArtifactLen == 10
\* len("# Infodatei zum View ["), the text generateInfoFile starts with
InfoHeadingLen == 22
\* len("# Infodatei zur Tabelle "), the text generateTableInfoFile starts with
TableInfoHeadingLen == 24
\* len("package main\n\n"), the text generateGoStruct starts with
GoStructHeadingLen == 14

Slash == <<"/">>
WorkingDir == <<"/", "w">>
ExtSql == <<".", "s", "q", "l">>
ExtInfo == <<".", "i", "n", "f", "o", ".", "m", "d">>
ExtGo == <<".", "g", "o">>

\* strings.ToLower, on the letters the model's names use
Lower(c) ==
    CASE c = "D" -> "d"
      [] c = "A" -> "a"
      [] c = "T" -> "t"
      [] OTHER -> c
ToLower(str) == [i \in 1..Len(str) |-> Lower(str[i])]

\* cleanFn: strings.ReplaceAll(str, "/", "-")
cleanFn(str) == [i \in 1..Len(str) |-> IF str[i] = "/" THEN "-" ELSE str[i]]

\* the segments of a path, as the file system resolves it: repeated and
\* trailing separators name nothing
RECURSIVE SegmentsFrom(_, _, _, _)
SegmentsFrom(path, i, cur, acc) ==
    IF i > Len(path)
    THEN IF cur = <<>> THEN acc ELSE Append(acc, cur)
    ELSE IF path[i] = "/"
    THEN SegmentsFrom(path, i + 1, <<>>, IF cur = <<>> THEN acc ELSE Append(acc, cur))
    ELSE SegmentsFrom(path, i + 1, Append(cur, path[i]), acc)
Segments(path) == SegmentsFrom(path, 1, <<>>, <<>>)

Parent(segs) == SubSeq(segs, 1, Len(segs) - 1)
Ancestors(segs) == { SubSeq(segs, 1, k) : k \in 0..Len(segs) }

\* dir := fmt.Sprintf("%s/vcs/%s/%s/", workingDir, lower(Database), lower(Schema))
ExportDir(workingDir, view) ==
    workingDir \o <<"/", "v", "c", "s", "/">> \o ToLower(view.Database) \o Slash
        \o ToLower(view.Schema) \o Slash

\* one row of generateInfoFile's dependency table (line 95)
DepRow(dep) ==
    ToLower(dep.ReferencedDB \o <<"|">> \o dep.ReferencedSchema \o <<"|", "[">>
            \o dep.ReferencedTable \o <<"]", "(", ".", ".", "/", ".", ".", "/">>
            \o dep.ReferencedDB \o Slash \o dep.ReferencedSchema)
        \o Slash \o dep.ReferencedTable \o ExtInfo \o <<")", "\n">>

\* generateInfoFile: the rows of its dependency table, one per element of
\* view.Dependencies, and a lower bound of its length (its first literal and
\* the qualified name that follows); the catalogs of the model hold no
\* "Commit;" lines and no comment labels
generateInfoFile(view) ==
    [depRows |-> [i \in 1..Len(view.Dependencies) |-> DepRow(view.Dependencies[i])],
     minLen |-> InfoHeadingLen + Len(view.Database) + 1 + Len(view.Schema) + 1
                    + Len(view.TableName)]

\* generateTableInfoFile: a lower bound of its length
generateTableInfoFile(view) ==
    [minLen |-> TableInfoHeadingLen + Len(view.Database) + 1 + Len(view.Schema) + 1
                    + Len(view.TableName) + Len(view.Definition)]

\* generateGoStruct: a lower bound of its length
generateGoStruct(view) ==
    [minLen |-> GoStructHeadingLen + Len(view.TableName)]

File(path, kind, depRows) == [path |-> path, kind |-> kind, depRows |-> depRows]

\* writeSQLFile: the os.WriteFile calls it makes, in order
writeSQLFile(dir, view) ==
    LET infofile == generateInfoFile(view)
        tableinfo == generateTableInfoFile(view)
        structFile == generateGoStruct(view)
        first ==
            IF Len(view.Definition) > MinArtifactLen
            THEN (IF Len(view.Definition) > MinArtifactLen
                  THEN << File(dir \o view.TableName \o ExtSql, "sql", <<>>) >>
                  ELSE <<>>)
                 \o (IF infofile.minLen > MinArtifactLen
                     THEN << File(dir \o view.TableName \o ExtInfo, "info",
                                  infofile.depRows) >>
                     ELSE <<>>)
            ELSE IF Len(view.Database) > 1
            THEN (IF tableinfo.minLen > MinArtifactLen
                  THEN << File(dir \o cleanFn(view.TableName) \o ExtInfo,
                               "tableinfo", <<>>) >>
                  ELSE <<>>)
            ELSE <<>>
    IN  first \o (IF structFile.minLen > MinArtifactLen
                  THEN << File(dir \o view.TableName \o ExtGo, "go", <<>>) >>
                  ELSE <<>>)

\* os.WriteFile succeeds when the directory of the path exists and the path
\* names no directory
WriteOk(dirs, path) ==
    /\ Segments(path) # <<>>
    /\ Parent(Segments(path)) \in dirs
    /\ Segments(path) \notin dirs

\* a skip test that lets one-character databases through
SkipsEntryEmptyOnly(view) == view.Database = <<".">> \/ Len(view.Database) < 1

\* the skip test of line 162
SkipsEntry(view) == view.Database = <<".">> \/ Len(view.Database) < 2

\* the catalogs exportToFiles is given: entries of a skipped database (empty,
\* ".", one character) without and with a definition, columns and
\* dependencies; entries of an exported database with every schema, name and
\* definition shape; and views with every column and dependency shape
ExportColumn == Column(<<"i", "d">>, "int", TRUE)
EmptyDep == Dependency(EmptyStr, EmptyStr, EmptyStr)
FullDep == Dependency(<<"D", "b">>, <<"a">>, <<"t">>)
ExportEntries ==
    { TableInfo(d, EmptyStr, <<"t">>, c.def, c.cols, c.deps, "VIEW") :
        d \in { EmptyStr, <<".">>, <<"x">> },
        c \in { [def |-> EmptyStr, cols |-> <<>>, deps |-> <<>>],
                [def |-> LongDef, cols |-> << ExportColumn >>, deps |-> << FullDep >>] } }
    \cup
    { TableInfo(<<"D", "b">>, sc, n, def, <<>>, <<>>, "VIEW") :
        sc \in { EmptyStr, <<"a">> },
        n \in { <<"t">>, <<"a", "/", "t">> },
        def \in { EmptyStr, LongDef } }
    \cup
    { TableInfo(<<"D", "b">>, <<"a">>, <<"t">>, LongDef, cols, deps, "VIEW") :
        cols \in { <<>>, << ExportColumn >> },
        deps \in { << EmptyDep >>, << FullDep >>, << FullDep, EmptyDep >> } }

ExportInit ==
    /\ j \in SeqsUpTo(ExportEntries, MaxCatalog)
    /\ exportPc = "getwd"
    /\ idx = 0
    /\ fsDirs = Ancestors(Segments(WorkingDir))
    /\ fsFiles = {}
    /\ ops = {}
    /\ exportErr = "nil"
    /\ config = [DBType |-> "sqlite", Databases |-> <<>>]
    /\ sqliteMaster = <<>>
    /\ infoSchema = [d \in DbNames |-> <<>>]
    /\ taskPc = <<>> /\ tables = <<>> /\ taskErr = <<>> /\ introspected = <<>>
    /\ wg = 0
    /\ resultsClosed = FALSE /\ errorsClosed = FALSE
    /\ closerPc = "wait"
    /\ tableInfos = <<>> /\ errs = <<>> /\ origin = <<>> /\ errOrigin = <<>>
    /\ returned = FALSE
    /\ retTables = <<>>
    /\ retErr = NilErr
    /\ FilterIdle
    /\ abandoned = FALSE

\* workingDir, err := os.Getwd() (lines 154-158)
ExportGetwd ==
    /\ exportPc = "getwd"
    /\ \E ok \in BOOLEAN :
          IF ok THEN exportPc' = "loop" /\ UNCHANGED exportErr
          ELSE exportPc' = "done" /\ exportErr' = "getwd"
    /\ UNCHANGED <<j, idx, fsDirs, fsFiles, ops>>
    /\ UNCHANGED <<orchVars, filterVars, callerVars>>

\* one turn of the loop of lines 160-167: createDirectory and writeSQLFile
ExportEntry ==
    /\ exportPc = "loop"
    /\ idx < Len(j)
    /\ LET view == j[idx + 1]
           dir == ExportDir(WorkingDir, view)
       IN  IF SkipsEntry(view)
           THEN UNCHANGED <<fsDirs, fsFiles, ops>>
           ELSE LET made == Segments(dir) \notin fsDirs
                    dirs == IF made THEN fsDirs \cup Ancestors(Segments(dir))
                            ELSE fsDirs
                    calls == writeSQLFile(dir, view)
                    done == { calls[i] : i \in { k \in DOMAIN calls : WriteOk(dirs, calls[k].path) } }
                    Resolved(f) == File(Segments(f.path), f.kind, f.depRows)
                IN  /\ fsDirs' = dirs
                    /\ fsFiles' = { f \in fsFiles :
                                      \A g \in done : f.path # Segments(g.path) }
                                  \cup { Resolved(g) : g \in done }
                    /\ ops' = ops
                         \cup (IF made
                               THEN { [entry |-> idx + 1, op |-> "mkdir",
                                       path |-> Segments(dir), kind |-> "dir",
                                       ok |-> TRUE, depRows |-> <<>>] }
                               ELSE {})
                         \cup { [entry |-> idx + 1, op |-> "write",
                                 path |-> Segments(calls[i].path),
                                 kind |-> calls[i].kind,
                                 ok |-> WriteOk(dirs, calls[i].path),
                                 depRows |-> calls[i].depRows] : i \in DOMAIN calls }
    /\ idx' = idx + 1
    /\ UNCHANGED <<j, exportPc, exportErr>>
    /\ UNCHANGED <<orchVars, filterVars, callerVars>>

\* return nil (line 168)
ExportReturn ==
    /\ exportPc = "loop"
    /\ idx = Len(j)
    /\ exportPc' = "done"
    /\ UNCHANGED <<j, idx, fsDirs, fsFiles, ops, exportErr>>
    /\ UNCHANGED <<orchVars, filterVars, callerVars>>

ExportNext == ExportGetwd \/ ExportEntry \/ ExportReturn

SpecExport == ExportInit /\ [][ExportNext]_vars

\* the directory of the i-th entry of the catalog, resolved
EntryDir(i) == Segments(ExportDir(WorkingDir, j[i]))

\* C7: every file writeSQLFile has written for an entry lies directly inside
\* that entry's <root>/<database>/<schema>/ directory, because every artifact
\* path is built from the object name with its separators replaced
C7_FilesInsideEntryDir ==
    \A o \in ops :
        (o.op = "write" /\ o.ok) => Parent(o.path) = EntryDir(o.entry)

\* the databases the export has no location for: ".", empty, one character
PlaceholderDatabase(view) ==
    view.Database = <<".">> \/ view.Database = EmptyStr \/ Len(view.Database) = 1

\* C8: exportToFiles makes no directory and no file for an entry whose
\* Database is ".", empty or one character, whatever its columns and
\* definition, and goes on to the entries after it: the directories that
\* exist are those of the other entries it has been through, no call was made
\* for a placeholder entry, and at the end every other entry had its struct
\* file written
C8_PlaceholderEntriesSkipped ==
    /\ fsDirs = Ancestors(Segments(WorkingDir)) \cup
                UNION { Ancestors(EntryDir(i)) :
                          i \in { k \in 1..idx : ~PlaceholderDatabase(j[k]) } }
    /\ \A o \in ops : ~PlaceholderDatabase(j[o.entry])
    /\ \A f \in fsFiles :
          \E i \in 1..idx :
              /\ ~PlaceholderDatabase(j[i])
              /\ Len(f.path) > Len(EntryDir(i))
              /\ SubSeq(f.path, 1, Len(EntryDir(i))) = EntryDir(i)
    /\ (exportPc = "done" /\ exportErr = "nil") =>
          \A i \in DOMAIN j :
              ~PlaceholderDatabase(j[i]) =>
                  \E o \in ops : o.entry = i /\ o.op = "write" /\ o.kind = "go"

\* C8's case: a placeholder entry with columns and a definition was passed
\* over and the entry after it was exported
C8_Witness ==
    /\ exportPc = "done"
    /\ Len(j) = 2
    /\ PlaceholderDatabase(j[1])
    /\ j[1].Columns # <<>> /\ Len(j[1].Definition) > MinArtifactLen
    /\ \E f \in fsFiles : Parent(f.path) = EntryDir(2)

\* the rows generateInfoFile is to render: those of the dependencies that
\* name a referenced table
RowsOfNamedDependencies(view) ==
    LET named == SelectSeq(view.Dependencies,
                           LAMBDA d : d.ReferencedTable # EmptyStr)
    IN  [i \in 1..Len(named) |-> DepRow(named[i])]

\* C9: the dependency table of every information document that was rendered
\* has no row for a dependency whose referenced table is empty
C9_NoRowForEmptyDependency ==
    \A o \in ops :
        (o.op = "write" /\ o.kind = "info") =>
            o.depRows = RowsOfNamedDependencies(j[o.entry])

(***************************************************************************)
(* Properties of queryDatabases.                                           *)
(***************************************************************************)
RECURSIVE SumUpTo(_, _)
SumUpTo(f(_), n) == IF n = 0 THEN 0 ELSE f(n) + SumUpTo(f, n - 1)

\* what task t's queryTables call returned as tables, once it has returned
Produced(t) ==
    IF taskPc[t] # "query" /\ taskErr[t] = NilErr THEN introspected[t] ELSE <<>>

Failed == { t \in Tasks : taskPc[t] # "query" /\ taskErr[t] # NilErr }
Succeeded == { t \in Tasks : taskPc[t] # "query" /\ taskErr[t] = NilErr }

Identity(e) == <<e.Database, e.Schema, e.TableName>>

NamesOf(entries) == [i \in 1..Len(entries) |-> entries[i].TableName]

\* some task's entries lie on both sides of another task's entry
Interleaved(marks) ==
    \E a, b, c \in DOMAIN marks :
        /\ a < b /\ b < c
        /\ marks[a] # 0 /\ marks[b] # 0
        /\ marks[a] = marks[c] /\ marks[a] # marks[b]

\* C1: when queryDatabases returns, every TableInfo that a task's queryTables
\* call produced (and the task then sent on results) is in the returned
\* catalog exactly as many times as the tasks produced it: none is lost and
\* none is doubled, whatever the interleaving. (The zero TableInfo is not
\* counted: no task produces it.)
C1_NoEntryLostOrDoubled ==
    returned =>
        \A e \in (Range(retTables) \cup UNION { Range(introspected[t]) : t \in Tasks })
                    \ { ZeroTableInfo } :
            LET CountIn(t) == Count(Produced(t), e)
            IN  Count(retTables, e) = SumUpTo(CountIn, Len(config.Databases))

\* C1's case: two tasks have each handed over at least two entries and
\* queryDatabases has returned
C1_Witness ==
    /\ returned
    /\ \E t, u \in Tasks :
          /\ t # u
          /\ Len(Produced(t)) >= 2 /\ Len(Produced(u)) >= 2
          /\ tables[t] = <<>> /\ tables[u] = <<>>

NumErrorsReturned == IF retErr = NilErr THEN 0 ELSE 1

C4_IdentityUnique ==
    returned =>
        \A a, b \in DOMAIN retTables :
            a # b => Identity(retTables[a]) # Identity(retTables[b])

\* C5 as stated: each database's entries are in discovery order and form one
\* contiguous block of the returned catalog
C5_ContiguousBlocks ==
    returned =>
        /\ \A t \in Succeeded :
              NamesOf(PickBy(tableInfos, origin, t)) =
                  [i \in 1..Len(QueryTablesRows(config, config.Databases[t])) |->
                      QueryTablesRows(config, config.Databases[t])[i][1]]
        /\ \A a, b, c \in DOMAIN retTables :
              (a < b /\ b < c /\ retTables[a].Database = retTables[c].Database)
                  => retTables[b].Database = retTables[a].Database

\* C5 as amended: the order is stable within a task only. At every moment the
\* entries the collector has from a successful task, followed by those the
\* task has yet to send, are the engine's objects in discovery order; entries
\* of different tasks may be interleaved
C5_StableWithinTask ==
    \A t \in Succeeded :
        NamesOf(PickBy(tableInfos, origin, t) \o tables[t]) =
            [i \in 1..Len(QueryTablesRows(config, config.Databases[t])) |->
                QueryTablesRows(config, config.Databases[t])[i][1]]

\* C5's case: the returned catalog interleaves the entries of two tasks
C5_Witness ==
    /\ returned
    /\ Interleaved(origin)
    /\ retTables = tableInfos

\* the row of the object query at which task t's queryTables call stopped
FailedRow(t) ==
    QueryTablesRows(config, config.Databases[t])[Len(introspected[t]) + 1]

IsBaseTableRow(row) ==
    IF Len(row) = 2 THEN row[2] = "table" ELSE row[4] = "BASE TABLE"

\* C10: no task is aborted by the definition fetch of a base table finding
\* no row: that fetch yields the empty string and no error
C10_BaseTableDefinitionEmpty ==
    \A t \in Failed :
        (/\ Len(introspected[t]) < Len(QueryTablesRows(config, config.Databases[t]))
         /\ IsBaseTableRow(FailedRow(t)))
            => taskErr[t] # ErrNoRows

\* C11: once the caller has abandoned the call, no task starts new work: a
\* task that had not yet called queryTables opens no connection and issues
\* no query from then on (queries issued before may run to completion)
C11_NoWorkAfterAbandon ==
    [][abandoned =>
          \A t \in Tasks : taskPc[t] = "query" => taskPc'[t] = "query"]_vars

\* C12: every entry of the catalog queryDatabases returns was sent on results
\* by some per-database task, which had it from its queryTables call: the
\* collector appends no entry that no task produced, whatever the interleaving
\* of the closer goroutine and the collector's select, with zero target
\* databases too
C12_EveryEntrySentByTask ==
    returned =>
        /\ Len(retTables) = Len(origin)
        /\ \A i \in DOMAIN retTables :
              /\ origin[i] \in Tasks
              /\ retTables[i] \in Range(Produced(origin[i]))

\* every task's queryTables call has returned
AllQueryTablesReturned == \A t \in Tasks : taskPc[t] # "query"

\* queryDatabases has returned and no goroutine of it is left
Finished ==
    /\ returned
    /\ closerPc = "exit"
    /\ \A t \in Tasks : taskPc[t] = "done"

\* C13: if every task's queryTables call returns, queryDatabases returns in
\* the end under fair scheduling: no task stays blocked on a send to results
\* or errors, the closer delivers on done and the collector takes the done
\* case, for any number of databases, zero too
C13_EventuallyReturns == AllQueryTablesReturned ~> Finished

\* C13's case: of two tasks one failed and one handed over two entries, the
\* collector also received from a closed channel, and the call has returned
\* with every goroutine gone
C13_Witness ==
    /\ Finished
    /\ Failed # {}
    /\ \E t \in Succeeded : Len(Produced(t)) >= 2
    /\ ClosedRecvs >= 1

====
